---- MODULE Spec2Model ----
(***************************************************************************)
(* Registration / login API of bountyRepo: the /register and /login        *)
(* handlers of routes/authRoutes.js, the User model, and the middlewares   *)
(* of middlewares/auth.js and middlewares/validation.js.                   *)
(*                                                                         *)
(* A JavaScript string is a record [t |-> "string", s |-> <<chars>>]; the  *)
(* value undefined is Undefined.  An async handler is cut at its awaits:   *)
(* one action per continuation.  A middleware is synchronous: one action.  *)
(***************************************************************************)
EXTENDS Naturals, Integers, Sequences, FiniteSets

\* ---------------------------------------------------------------- bounds
NumReqs == 2        \* request handlers in flight at once
MaxUsers == 2       \* documents the collection may hold
MaxTime == 2        \* clock ticks; one tick is one token lifetime of 7 days

\* ------------------------------------------------------- JavaScript values
Undefined == [t |-> "undefined", s |-> <<>>]
Str(s) == [t |-> "string", s |-> s]
IsString(v) == v.t = "string"
\* !v is false exactly for a non-empty string (undefined and "" are falsy)
Truthy(v) == IsString(v) /\ Len(v.s) > 0

\* ------------------------------------------------------------ bcryptjs
Salts == {"s1", "s2"}
\* bcrypt.hash(s, 10): a digest string that carries its salt
Hash(p, salt) == Str(<<"$2a$", salt>> \o p.s)
\* bcrypt.compare(s, hash): re-hash s with the salt the digest carries
Compare(p, h) ==
    /\ IsString(h)
    /\ Len(h.s) >= 2
    /\ h.s[1] = "$2a$"
    /\ Hash(p, h.s[2]) = h

\* ------------------------------------------------------------ User model
NoUser == [_id |-> 0, username |-> Undefined, email |-> Undefined,
           password |-> Undefined, role |-> "none"]
\* new User({username, email, password: hashedPassword}); role defaults to 'user'
RegisterDocPlain(id, body, hashedPassword) ==
    [_id |-> id, username |-> body.username, email |-> body.email,
     password |-> body.password, role |-> "user"]
RegisterDoc(id, body, hashedPassword) ==
    [_id |-> id, username |-> body.username, email |-> body.email,
     password |-> hashedPassword, role |-> "user"]

\* ------------------------------------------------------------ jsonwebtoken
Secret == "hardcoded-secret"
NoExp == -1
NoToken == [userId |-> 0, email |-> Undefined, iat |-> 0, exp |-> NoExp, key |-> "none"]
\* jwt.sign({userId, email}, 'hardcoded-secret'): iat is added, no expiresIn is given
JwtSign(user, t) ==
    [userId |-> user._id, email |-> user.email, iat |-> t, exp |-> NoExp, key |-> Secret]
NoHeader == [kind |-> "absent", tok |-> NoToken]
\* jwt.verify(string, secret): the string itself must be a compact JWT
JwtVerify(h, t) ==
    CASE h.kind = "absent" -> [ok |-> FALSE, error |-> "jwt must be provided"]
      [] h.kind = "bearer" -> [ok |-> FALSE, error |-> "invalid token"]
      [] h.kind = "garbage" -> [ok |-> FALSE, error |-> "jwt malformed"]
      [] h.tok.key # Secret -> [ok |-> FALSE, error |-> "invalid signature"]
      [] h.tok.exp # NoExp /\ t >= h.tok.exp -> [ok |-> FALSE, error |-> "jwt expired"]
      [] OTHER -> [ok |-> TRUE, error |-> ""]

\* ------------------------------------------------------------ request inputs
Bob == Str(<<"b", "o", "b">>)
Amy == Str(<<"a", "m", "y">>)
Ab == Str(<<"a", "b">>)
MailA == Str(<<"a", "@", "b", ".", "c">>)
MailD == Str(<<"d", "@", "b", ".", "c">>)
MailZ == Str(<<"z", "@", "b", ".", "c">>)
MailBad == Str(<<"a", "b", "c">>)
Secret1 == Str(<<"s", "e", "c", "r", "e", "t">>)
Hunter == Str(<<"h", "u", "n", "t", "e", "r">>)
Pw == Str(<<"p", "w">>)

Body(u, e, p) == [username |-> u, email |-> e, password |-> p]
NoBody == Body(Undefined, Undefined, Undefined)
RegisterBodies ==
    { Body(Bob, MailA, Secret1),        \* well formed
      Body(Amy, MailA, Hunter),         \* well formed, the email of the first
      Body(Bob, MailBad, Secret1),      \* the username of the first, email without @
      Body(Ab, MailD, Pw),              \* username shorter than 3, password shorter than 6
      Body(Amy, MailD, Undefined) }     \* no password
LoginBodies ==
    { Body(Undefined, MailA, Secret1),
      Body(Undefined, MailA, Pw),
      Body(Undefined, MailZ, Secret1),
      Body(Undefined, Undefined, Secret1),
      Body(Undefined, MailA, Undefined) }

\* ------------------------------------------------------------------ state
VARIABLES
    users,      \* the users collection, in insertion order
    nextId,     \* the next _id a new User() is given
    now,        \* the clock
    reqs        \* reqs[r]: the request r handles, its locals, and its response

vars == <<users, nextId, now, reqs>>

Reqs == 1..NumReqs
\* route: the handler or middleware; pc: the await it is parked at, or "done";
\* user: the handler's local `user`; dup: the email was stored when the request
\* arrived; status, message, json, token: the response; reqUser, next: what a
\* middleware did; at: the clock jwt.verify read
Idle ==
    [route |-> "idle", pc |-> "idle", body |-> NoBody, header |-> NoHeader,
     user |-> NoUser, dup |-> FALSE, status |-> 0, message |-> "",
     json |-> NoUser, token |-> NoToken, reqUser |-> NoToken, next |-> FALSE,
     at |-> 0]
Free(r) == reqs[r].pc \in {"idle", "done"}

\* User.findOne({ email }): the first document in natural order whose email is
\* the queried one (an undefined filter value is sent as null and matches only
\* a document without email)
FindOne(email) ==
    LET hits == {i \in 1..Len(users) : users[i].email = email}
    IN  IF hits = {} THEN NoUser
        ELSE users[CHOOSE i \in hits : \A j \in hits : i <= j]

\* a string email that a stored document already carries
EmailStored(email) ==
    IsString(email) /\ \E i \in 1..Len(users) : users[i].email = email

Init ==
    /\ users = <<>>
    /\ nextId = 1
    /\ now = 0
    /\ reqs = [r \in Reqs |-> Idle]

\* -------------------------------------------------------- POST /register
\* the request arrives; the handler runs to its first await, bcrypt.hash
ReceiveRegister(r, b) ==
    /\ Free(r)
    /\ reqs' = [reqs EXCEPT ![r] =
          [Idle EXCEPT !.route = "register", !.pc = "hash", !.body = b,
                       !.dup = EmailStored(b.email)]]
    /\ UNCHANGED <<users, nextId, now>>

\* bcrypt.hash settles: it rejects a non-string (caught, 500), else the
\* document is constructed and user.save() is awaited
RegisterHash(r) ==
    /\ reqs[r].route = "register"
    /\ reqs[r].pc = "hash"
    /\ IF ~IsString(reqs[r].body.password)
       THEN /\ reqs' = [reqs EXCEPT ![r].pc = "done", ![r].status = 500,
                          ![r].message = "Illegal arguments: undefined, number"]
            /\ UNCHANGED <<users, nextId, now>>
       ELSE /\ nextId <= MaxUsers
            /\ \E salt \in Salts :
                 reqs' = [reqs EXCEPT ![r].pc = "save",
                            ![r].user = RegisterDoc(nextId, reqs[r].body,
                                            Hash(reqs[r].body.password, salt))]
            /\ nextId' = nextId + 1
            /\ UNCHANGED <<users, now>>

\* user.save() settles: the schema has no unique index and no validator, the
\* insert succeeds; 201 with the document as saved
RegisterSave(r) ==
    /\ reqs[r].route = "register"
    /\ reqs[r].pc = "save"
    /\ users' = Append(users, reqs[r].user)
    /\ reqs' = [reqs EXCEPT ![r].pc = "done", ![r].status = 201,
                  ![r].message = "User created successfully",
                  ![r].json = reqs[r].user]
    /\ UNCHANGED <<nextId, now>>

\* ----------------------------------------------------------- POST /login
\* the request arrives; the handler runs to its first await, User.findOne
ReceiveLogin(r, b) ==
    /\ Free(r)
    /\ reqs' = [reqs EXCEPT ![r] =
          [Idle EXCEPT !.route = "login", !.pc = "find", !.body = b]]
    /\ UNCHANGED <<users, nextId, now>>

\* findOne settles; user.password on null throws (caught, 500), else
\* bcrypt.compare is awaited
LoginFind(r) ==
    /\ reqs[r].route = "login"
    /\ reqs[r].pc = "find"
    /\ LET user == FindOne(reqs[r].body.email)
       IN  reqs' = IF user = NoUser
                   THEN [reqs EXCEPT ![r].pc = "done", ![r].status = 500,
                           ![r].message = "Cannot read properties of null"]
                   ELSE [reqs EXCEPT ![r].pc = "compare", ![r].user = user]
    /\ UNCHANGED <<users, nextId, now>>

\* bcrypt.compare settles: it rejects a non-string (caught, 500); else its
\* result isValidPassword is never read, the token is signed and sent
LoginCompare(r) ==
    /\ reqs[r].route = "login"
    /\ reqs[r].pc = "compare"
    /\ reqs' = IF ~IsString(reqs[r].body.password)
               THEN [reqs EXCEPT ![r].pc = "done", ![r].status = 500,
                       ![r].message = "Illegal arguments: undefined, string"]
               ELSE [reqs EXCEPT ![r].pc = "done", ![r].status = 200,
                       ![r].message = "Login successful",
                       ![r].token = JwtSign(reqs[r].user, now),
                       ![r].json = reqs[r].user]
    /\ UNCHANGED <<users, nextId, now>>

\* ------------------------------------------------------------ middlewares
\* the Authorization values a client sends: nothing, junk, or a token a login
\* response gave it, bare, behind "Bearer ", or re-signed with another key
Headers ==
    LET issued == {reqs[r].token : r \in Reqs} \ {NoToken}
    IN  {NoHeader, [kind |-> "garbage", tok |-> NoToken]}
        \cup {[kind |-> "raw", tok |-> t] : t \in issued}
        \cup {[kind |-> "bearer", tok |-> t] : t \in issued}
        \cup {[kind |-> "raw", tok |-> [t EXCEPT !.key = "other-secret"]] : t \in issued}

\* authMiddleware: jwt.verify on the whole header value; a throw is not caught,
\* and index.js installs no error middleware, so Express answers it with 500
AuthMiddleware(r, h) ==
    /\ Free(r)
    /\ LET decoded == JwtVerify(h, now)
       IN  reqs' = [reqs EXCEPT ![r] =
             IF decoded.ok
             THEN [Idle EXCEPT !.route = "authMiddleware", !.pc = "done",
                     !.header = h, !.reqUser = h.tok, !.next = TRUE, !.at = now]
             ELSE [Idle EXCEPT !.route = "authMiddleware", !.pc = "done",
                     !.header = h, !.status = 500,
                     !.message = decoded.error, !.at = now]]
    /\ UNCHANGED <<users, nextId, now>>

\* validateUser: only the presence of the three fields is tested
ValidateUser(r, b) ==
    /\ Free(r)
    /\ reqs' = [reqs EXCEPT ![r] =
         IF ~Truthy(b.username) \/ ~Truthy(b.email) \/ ~Truthy(b.password)
         THEN [Idle EXCEPT !.route = "validateUser", !.pc = "done", !.body = b,
                 !.status = 400, !.message = "All fields are required"]
         ELSE [Idle EXCEPT !.route = "validateUser", !.pc = "done", !.body = b,
                 !.next = TRUE]]
    /\ UNCHANGED <<users, nextId, now>>

\* validateLogin: next() and nothing else
ValidateLogin(r, b) ==
    /\ Free(r)
    /\ reqs' = [reqs EXCEPT ![r] =
         [Idle EXCEPT !.route = "validateLogin", !.pc = "done", !.body = b,
            !.next = TRUE]]
    /\ UNCHANGED <<users, nextId, now>>

\* ------------------------------------------------------------------ clock
Tick ==
    /\ now < MaxTime
    /\ now' = now + 1
    /\ UNCHANGED <<users, nextId, reqs>>

\* the three continuations of the /register handler
Register(bodies) ==
    \/ \E r \in Reqs, b \in bodies : ReceiveRegister(r, b)
    \/ \E r \in Reqs : RegisterHash(r)
    \/ \E r \in Reqs : RegisterSave(r)

\* the three continuations of the /login handler
Login(bodies) ==
    \/ \E r \in Reqs, b \in bodies : ReceiveLogin(r, b)
    \/ \E r \in Reqs : LoginFind(r)
    \/ \E r \in Reqs : LoginCompare(r)

\* the whole API; the specifications below are its parts, each one the
\* routes and middlewares a group of properties is about
Next ==
    \/ Register(RegisterBodies)
    \/ Login(LoginBodies)
    \/ \E r \in Reqs, h \in Headers : AuthMiddleware(r, h)
    \/ \E r \in Reqs, b \in RegisterBodies : ValidateUser(r, b)
    \/ \E r \in Reqs, b \in LoginBodies : ValidateLogin(r, b)
    \/ Tick

Spec == Init /\ [][Next]_vars

\* registration alone: /register and its validator
NextRegister ==
    \/ Register(RegisterBodies)
    \/ \E r \in Reqs, b \in RegisterBodies : ValidateUser(r, b)

SpecRegister == Init /\ [][NextRegister]_vars

\* password storage: /register alone, with a long, a short and a missing password
PasswordBodies ==
    {Body(Bob, MailA, Secret1), Body(Ab, MailD, Pw), Body(Amy, MailD, Undefined)}
NextPasswords == Register(PasswordBodies)

SpecPasswords == Init /\ [][NextPasswords]_vars

\* accounts: /register and /login with their validators, the clock at rest
NextAccounts ==
    \/ Register(RegisterBodies)
    \/ Login(LoginBodies)
    \/ \E r \in Reqs, b \in RegisterBodies : ValidateUser(r, b)
    \/ \E r \in Reqs, b \in LoginBodies : ValidateLogin(r, b)

SpecAccounts == Init /\ [][NextAccounts]_vars

\* sessions: clients that register and log in with well-formed bodies, then
\* present their tokens to authMiddleware while the clock runs
SessionRegisterBodies == {Body(Bob, MailA, Secret1), Body(Amy, MailA, Hunter)}
SessionLoginBodies == {Body(Undefined, MailA, Secret1), Body(Undefined, MailZ, Secret1)}
NextSession ==
    \/ Register(SessionRegisterBodies)
    \/ Login(SessionLoginBodies)
    \/ \E r \in Reqs, h \in Headers : AuthMiddleware(r, h)
    \/ Tick

SpecSession == Init /\ [][NextSession]_vars

\* ================================================================ properties
Done(r) == reqs[r].pc = "done"
Stored(doc) == \E i \in 1..Len(users) : users[i]._id = doc._id

\* the token lifetime the documentation gives, expiresIn: '7d', in clock ticks
TTL == 1

\* /^[^\s@]+@[^\s@]+\.[^\s@]+$/ of the documented validator
EmailPattern(e) ==
    /\ IsString(e)
    /\ \A k \in 1..Len(e.s) : e.s[k] # " "
    /\ \E i \in 2..Len(e.s) :
         /\ e.s[i] = "@"
         /\ \A k \in 1..Len(e.s) : e.s[k] = "@" => k = i
         /\ \E j \in (i + 2)..(Len(e.s) - 1) : e.s[j] = "."

\* a registration body the documented validator refuses
Invalid(b) ==
    \/ ~IsString(b.username) \/ Len(b.username.s) < 3
    \/ ~EmailPattern(b.email)
    \/ ~IsString(b.password) \/ Len(b.password.s) < 6

\* ---- C1
\* a finished /login whose email matched no document, or matched one whose
\* stored hash the password does not verify against
BadCredentials(r) ==
    /\ reqs[r].route = "login"
    /\ Done(r)
    /\ IsString(reqs[r].body.email)
    /\ IsString(reqs[r].body.password)
    /\ \/ reqs[r].user = NoUser
       \/ ~Compare(reqs[r].body.password, reqs[r].user.password)

\* C1: every /login with an unknown email or a wrong password is answered 401
\* with no token, and any two such answers carry the same message.
C1_BadCredentials401 ==
    \A r \in Reqs :
        BadCredentials(r) =>
            /\ reqs[r].status = 401
            /\ reqs[r].token = NoToken
            /\ \A q \in Reqs : BadCredentials(q) => reqs[q].message = reqs[r].message

\* ---- C2
\* the header carries a token, bare or behind "Bearer ", that is signed with the
\* server's key and is not past its exp
TokenVerifies(h, t) ==
    /\ h.kind \in {"raw", "bearer"}
    /\ h.tok.key = Secret
    /\ h.tok.exp = NoExp \/ t < h.tok.exp

\* C2: authMiddleware answers 401 without next() and without req.user when the
\* header is absent, malformed or fails verification; otherwise it sets
\* req.user to the decoded identity and calls next().
C2_AuthMiddleware401 ==
    \A r \in Reqs :
        (reqs[r].route = "authMiddleware" /\ Done(r)) =>
            IF TokenVerifies(reqs[r].header, reqs[r].at)
            THEN reqs[r].next /\ reqs[r].reqUser = reqs[r].header.tok
            ELSE reqs[r].status = 401 /\ ~reqs[r].next /\ reqs[r].reqUser = NoToken

\* ---- C3
\* C3: a /register that arrives when its email is already stored ends in 409
\* and adds no document.
C3_DuplicateEmail409 ==
    \A r \in Reqs :
        (reqs[r].route = "register" /\ Done(r) /\ reqs[r].dup) =>
            reqs[r].status = 409 /\ ~Stored(reqs[r].user)

\* ---- C4
\* C4: no two stored documents share an email, and no two share a username.
C4_UniqueEmailUsername ==
    \A i, j \in 1..Len(users) :
        i # j =>
            /\ IsString(users[i].email) => users[i].email # users[j].email
            /\ IsString(users[i].username) => users[i].username # users[j].username

\* ---- C5
\* C5: the user object in a /register or /login response has no password field.
C5_NoPasswordInResponse ==
    \A r \in Reqs :
        (reqs[r].route \in {"register", "login"} /\ Done(r)) =>
            reqs[r].json.password = Undefined

\* ---- C6
\* C6: the token of a successful /login names the stored user it was issued
\* for, and presented as "Bearer <token>" within its lifetime it is accepted
\* with req.user.userId that user's id.
C6_BearerRoundTrip ==
    /\ \A r \in Reqs :
         (reqs[r].route = "login" /\ Done(r) /\ reqs[r].status = 200) =>
             reqs[r].token.userId = reqs[r].user._id /\ Stored(reqs[r].user)
    /\ \A r \in Reqs :
         ( /\ reqs[r].route = "authMiddleware"
           /\ Done(r)
           /\ reqs[r].header.kind = "bearer"
           /\ reqs[r].header.tok.key = Secret
           /\ reqs[r].at - reqs[r].header.tok.iat <= TTL ) =>
             reqs[r].next /\ reqs[r].reqUser.userId = reqs[r].header.tok.userId

\* ---- C7
\* C7: every token /login issues expires TTL after its issuance, and
\* authMiddleware accepts no token older than TTL.
C7_ExpiredTokenRejected ==
    /\ \A r \in Reqs :
         (reqs[r].route = "login" /\ Done(r) /\ reqs[r].status = 200) =>
             reqs[r].token.exp = reqs[r].token.iat + TTL
    /\ \A r \in Reqs :
         ( /\ reqs[r].route = "authMiddleware"
           /\ Done(r)
           /\ reqs[r].header.tok.key = Secret
           /\ reqs[r].at - reqs[r].header.tok.iat > TTL ) =>
             ~reqs[r].next

\* ---- C8
\* C8: a /register whose body is invalid is answered 400 and stores no
\* document (its hash-and-save step is never reached).
C8_InvalidRegister400 ==
    \A r \in Reqs :
        (reqs[r].route = "register" /\ Invalid(reqs[r].body)) =>
            /\ ~Stored(reqs[r].user)
            /\ Done(r) => reqs[r].status = 400

\* ---- C9
\* a login body without email or without password
Incomplete(b) == ~Truthy(b.email) \/ ~Truthy(b.password)

\* C9: validateLogin answers an incomplete body with 400 and does not call
\* next(); the /login handler never looks such a request up nor compares its
\* password.
C9_IncompleteLogin400 ==
    \A r \in Reqs :
        /\ (reqs[r].route = "validateLogin" /\ Done(r) /\ Incomplete(reqs[r].body)) =>
               reqs[r].status = 400 /\ ~reqs[r].next
        /\ (reqs[r].route = "login" /\ Incomplete(reqs[r].body)) =>
               reqs[r].pc \notin {"find", "compare"}

\* ---- C10
\* a value bcrypt.hash returns for some submitted password
IsDigest(v) ==
    \E b \in RegisterBodies, salt \in Salts :
        IsString(b.password) /\ v = Hash(b.password, salt)

\* C10: every stored password is a bcrypt digest, and the document a /register
\* saves carries the digest of the submitted password, never the password.
C10_StoredPasswordHashed ==
    /\ \A i \in 1..Len(users) : IsDigest(users[i].password)
    /\ \A r \in Reqs :
         (reqs[r].route = "register" /\ reqs[r].pc \in {"save", "done"}
            /\ reqs[r].user # NoUser) =>
             /\ reqs[r].user.password # reqs[r].body.password
             /\ \E salt \in Salts :
                  reqs[r].user.password = Hash(reqs[r].body.password, salt)

\* a registration answered 201 whose document is in the collection
C10_Witness ==
    \E r \in Reqs :
        /\ reqs[r].route = "register"
        /\ Done(r)
        /\ reqs[r].status = 201
        /\ \E i \in 1..Len(users) : users[i] = reqs[r].user

====
